---- MODULE Spec2Model ----
(***************************************************************************)
(* Escrow ledger, campaign lifecycle and verification scheduler of the     *)
(* telegram_ad_bot services, as a state machine.                           *)
(*                                                                         *)
(* Every service call is a coroutine; it is modelled as a task whose pc    *)
(* moves from one awaited persistence / gateway call to the next.  The     *)
(* sequential specifications run one call at a time, the concurrent ones   *)
(* let as many calls as there are task slots interleave at those awaits.  *)
(***************************************************************************)
EXTENDS Integers, Sequences, FiniteSets, Bags, TLC

\* ---------------------------------------------------------------- bounds
MaxBalance == 2          \* initial balances are drawn from 0..MaxBalance
MaxPrice == 2            \* campaign prices are drawn from 1..MaxPrice
MaxDeposit == 1          \* largest deposit amount tried
MaxDeposits == 1         \* deposits stop after this many DEPOSIT rows

\* ------------------------------------------------------- program constants
max_retries == 3

Users == {"adv", "own"}
Campaigns == {1}
Channels == {1, 2}
TaskIds == {1, 2}          \* slots for the coroutines in flight
NoCampaign == 0
NoUser == "none"

VARIABLES
    status,        \* Campaign.status
    price,         \* Campaign.price
    balance,       \* User.balance
    ledger,        \* rows of the transactions table, as a bag
    assignments,   \* rows of the campaign_assignments table, index = id
    channel,       \* Channel.is_verified / bot_admin_status
    jobs,          \* the scheduler's job store (date-triggered jobs only)
    due,           \* verification_scheduled_at <= now
    expired,       \* expires_at <= now
    tasks,         \* the coroutines in flight
    balance0,      \* the balances at start (never written)
    fired          \* what the one-shot verification job met when it fired

vars == <<status, price, balance, ledger, assignments, channel, jobs, due,
          expired, tasks, balance0, fired>>

ledgerVars == <<balance, ledger>>
systemVars == <<status, assignments, jobs, due, expired, fired>>
fixedVars == <<price, channel, balance0>>

\* ----------------------------------------------------------------- models
CampaignStatus == {"PENDING", "ACTIVE", "COMPLETED", "FAILED", "CANCELLED"}
TransactionType == {"DEPOSIT", "HOLD", "RELEASE", "REFUND"}

advertiser_id(c) == "adv"
owner_id(ch) == "own"

Transaction(ty, u, c, amount) ==
    [transaction_type |-> ty, user_id |-> u, campaign_id |-> c,
     amount |-> amount, status |-> "COMPLETED"]

\* the rows of l that satisfy (campaign_id == c, transaction_type == ty,
\* status == COMPLETED), the where clause of every escrow select
Matching(l, ty, c) ==
    {r \in BagToSet(l) : /\ r.campaign_id = c
                         /\ r.transaction_type = ty
                         /\ r.status = "COMPLETED"}

RECURSIVE Copies(_, _)
Copies(l, rows) ==
    IF rows = {} THEN 0
    ELSE LET r == CHOOSE x \in rows : TRUE
         IN  CopiesIn(r, l) + Copies(l, rows \ {r})

\* number of rows select(Transaction).where(...) returns
CompletedOf(l, ty, c) == Copies(l, Matching(l, ty, c))

\* Result.scalar_one_or_none(): the row, None, or MultipleResultsFound
\* (an SQLAlchemyError, which every service turns into a database error)
scalar_one_or_none(n) ==
    IF n = 0 THEN "none"
    ELSE IF n = 1 THEN "one"
    ELSE "MultipleResultsFound"

\* the write as it would be if a campaign's entry were rewritten in place
\* instead of a new entry being added
Insert_in_place(l, row) ==
    LET old == {r \in BagToSet(l) : /\ r.campaign_id = row.campaign_id
                                    /\ r.campaign_id # NoCampaign}
    IN  IF old = {} THEN l (+) SetToBag({row})
        ELSE (l (-) SetToBag({CHOOSE r \in old : TRUE})) (+) SetToBag({row})

\* session.add(row) followed by the commit
Insert(l, row) == l (+) SetToBag({row})

\* ---------------------------------------------------------- escrow checks
\* hold_funds as it would be if the existing-hold guard looked only at
\* holds that are not settled yet
hold_check_unsettled_only(l, c, snap) ==
    LET settled == CompletedOf(l, "RELEASE", c) + CompletedOf(l, "REFUND", c) > 0
        existing_hold == scalar_one_or_none(CompletedOf(l, "HOLD", c))
    IN  IF existing_hold = "MultipleResultsFound" THEN "DatabaseError"
        ELSE IF existing_hold = "one" /\ ~settled THEN "FundsAlreadyHeld"
        ELSE IF snap < price[c] THEN "InsufficientFunds"
        ELSE "ok"

\* hold_funds, from the select of the existing hold to the balance test;
\* snap is the advertiser balance the session loaded
hold_check(l, c, snap) ==
    LET existing_hold == scalar_one_or_none(CompletedOf(l, "HOLD", c))
    IN  IF existing_hold = "MultipleResultsFound" THEN "DatabaseError"
        ELSE IF existing_hold = "one" THEN "FundsAlreadyHeld"
        ELSE IF snap < price[c] THEN "InsufficientFunds"
        ELSE "ok"

\* release_funds as it would be without the test of the hold
release_check_without_hold(l, c) ==
    LET existing_release == scalar_one_or_none(CompletedOf(l, "RELEASE", c))
    IN  IF existing_release = "MultipleResultsFound" THEN "DatabaseError"
        ELSE IF existing_release = "one" THEN "InvalidTransaction"
        ELSE "ok"

\* release_funds, the two selects
release_check(l, c) ==
    LET hold_tx == scalar_one_or_none(CompletedOf(l, "HOLD", c))
        existing_release == scalar_one_or_none(CompletedOf(l, "RELEASE", c))
    IN  IF hold_tx = "MultipleResultsFound" THEN "DatabaseError"
        ELSE IF hold_tx = "none" THEN "FundsNotHeld"
        ELSE IF existing_release = "MultipleResultsFound" THEN "DatabaseError"
        ELSE IF existing_release = "one" THEN "InvalidTransaction"
        ELSE "ok"

\* refund_funds, the three selects
refund_check(l, c) ==
    LET hold_tx == scalar_one_or_none(CompletedOf(l, "HOLD", c))
        existing_refund == scalar_one_or_none(CompletedOf(l, "REFUND", c))
        existing_release == scalar_one_or_none(CompletedOf(l, "RELEASE", c))
    IN  IF hold_tx = "MultipleResultsFound" THEN "DatabaseError"
        ELSE IF hold_tx = "none" THEN "FundsNotHeld"
        ELSE IF existing_refund = "MultipleResultsFound" THEN "DatabaseError"
        ELSE IF existing_refund = "one" THEN "InvalidTransaction"
        ELSE IF existing_release = "MultipleResultsFound" THEN "DatabaseError"
        ELSE IF existing_release = "one" THEN "InvalidTransaction"
        ELSE "ok"

\* ---------------------------------------------------------- escrow writes
\* hold_funds as it would be if the HOLD row carried the price unsigned
hold_write_unsigned(c, snap) ==
    /\ balance' = [balance EXCEPT ![advertiser_id(c)] = snap - price[c]]
    /\ ledger' = Insert(ledger, Transaction("HOLD", advertiser_id(c), c, price[c]))

\* The unit of work flushes UPDATE users SET balance = <value computed from
\* the loaded row> and INSERT INTO transactions, then commits.
hold_write(c, snap) ==
    /\ balance' = [balance EXCEPT ![advertiser_id(c)] = snap - price[c]]
    /\ ledger' = Insert(ledger, Transaction("HOLD", advertiser_id(c), c, -price[c]))

release_write(c, recipient_id, snap) ==
    /\ balance' = [balance EXCEPT ![recipient_id] = snap + price[c]]
    /\ ledger' = Insert(ledger, Transaction("RELEASE", recipient_id, c, price[c]))

\* refund_funds as it would be if it appended the REFUND row without
\* crediting the advertiser
refund_write_without_credit(c, snap) ==
    /\ balance' = [balance EXCEPT ![advertiser_id(c)] = snap]
    /\ ledger' = Insert(ledger, Transaction("REFUND", advertiser_id(c), c, price[c]))

refund_write(c, snap) ==
    /\ balance' = [balance EXCEPT ![advertiser_id(c)] = snap + price[c]]
    /\ ledger' = Insert(ledger, Transaction("REFUND", advertiser_id(c), c, price[c]))

deposit_write(u, amount, snap) ==
    /\ balance' = [balance EXCEPT ![u] = snap + amount]
    /\ ledger' = Insert(ledger, Transaction("DEPOSIT", u, NoCampaign, amount))

\* ------------------------------------------------------------------ tasks
IdleTask ==
    [op |-> "idle", pc |-> "idle", c |-> NoCampaign, u |-> NoUser, ch |-> 0,
     aid |-> 0, snap |-> 0, amt |-> 0, rc |-> 0, lvl |-> 0,
     target |-> "none", sched |-> FALSE, gw |-> "none", forced |-> FALSE,
     out |-> "none"]

Active == {t \in TaskIds : tasks[t].op # "idle" /\ tasks[t].pc # "done"}

\* some call has ended and its outcome is not collected yet
Returning == \E t \in TaskIds : tasks[t].pc = "done"

\* a call may start while fewer than lim calls are in flight and no outcome
\* waits to be collected; it takes the first free slot (slot numbers carry
\* no meaning)
CanStart(t, lim) ==
    /\ ~Returning
    /\ tasks[t].op = "idle"
    /\ \A s \in TaskIds : s < t => tasks[s].op # "idle"
    /\ Cardinality(Active) < lim

\* the call with record tk has ended with outcome out (a return value or an
\* exception); its arguments stay readable until the outcome is collected
Ended(tk, out) ==
    [IdleTask EXCEPT !.op = tk.op, !.pc = "done", !.c = tk.c, !.u = tk.u,
                     !.ch = tk.ch, !.aid = tk.aid, !.rc = tk.rc,
                     !.forced = tk.forced, !.out = out]

Finish(t, out) == tasks' = [tasks EXCEPT ![t] = Ended(tasks[t], out)]

\* the caller has taken the outcome; the slot is free again
ret(t) ==
    /\ tasks[t].pc = "done"
    /\ tasks' = [tasks EXCEPT ![t] = IdleTask]
    /\ UNCHANGED <<ledgerVars, systemVars, fixedVars>>

Done(t, op, out) == tasks[t].op = op /\ tasks[t].pc = "done" /\ tasks[t].out = out

EscrowOps == {"deposit", "hold", "release", "refund"}

\* ------------------------------------------------- EscrowService, as calls
\* deposit_funds as it would be without the test of the amount
deposit_funds_any_amount(t, u, amount, lim) ==
    /\ CanStart(t, lim)
    /\ CompletedOf(ledger, "DEPOSIT", NoCampaign) < MaxDeposits
    /\ balance[u] + amount <= MaxBalance + MaxPrice
    /\ tasks' = [tasks EXCEPT ![t] =
            [IdleTask EXCEPT !.op = "deposit", !.pc = "commit", !.u = u,
                             !.amt = amount, !.snap = balance[u]]]
    /\ UNCHANGED <<ledgerVars, systemVars, fixedVars>>

\* deposit_funds up to session.get(User)
deposit_funds(t, u, amount, lim) ==
    /\ CanStart(t, lim)
    /\ CompletedOf(ledger, "DEPOSIT", NoCampaign) < MaxDeposits
    /\ balance[u] + amount <= MaxBalance + MaxPrice
    /\ IF amount <= 0
       THEN tasks' = [tasks EXCEPT ![t] =
                [IdleTask EXCEPT !.op = "deposit", !.pc = "done", !.u = u,
                                 !.out = "InvalidTransaction"]]
       ELSE tasks' = [tasks EXCEPT ![t] =
                [IdleTask EXCEPT !.op = "deposit", !.pc = "commit", !.u = u,
                                 !.amt = amount, !.snap = balance[u]]]
    /\ UNCHANGED <<ledgerVars, systemVars, fixedVars>>

\* hold_funds up to session.get(User, campaign.advertiser_id)
hold_funds(t, c, lim) ==
    /\ CanStart(t, lim)
    /\ tasks' = [tasks EXCEPT ![t] =
           [IdleTask EXCEPT !.op = "hold", !.pc = "check", !.c = c,
                            !.u = advertiser_id(c),
                            !.snap = balance[advertiser_id(c)]]]
    /\ UNCHANGED <<ledgerVars, systemVars, fixedVars>>

\* release_funds up to session.get(User, recipient_id)
release_funds(t, c, recipient_id, lim) ==
    /\ CanStart(t, lim)
    /\ tasks' = [tasks EXCEPT ![t] =
           [IdleTask EXCEPT !.op = "release", !.pc = "check", !.c = c,
                            !.u = recipient_id, !.snap = balance[recipient_id]]]
    /\ UNCHANGED <<ledgerVars, systemVars, fixedVars>>

\* refund_funds up to session.get(User, campaign.advertiser_id)
refund_funds(t, c, lim) ==
    /\ CanStart(t, lim)
    /\ tasks' = [tasks EXCEPT ![t] =
           [IdleTask EXCEPT !.op = "refund", !.pc = "check", !.c = c,
                            !.u = advertiser_id(c),
                            !.snap = balance[advertiser_id(c)]]]
    /\ UNCHANGED <<ledgerVars, systemVars, fixedVars>>

\* the selects of hold_funds / release_funds / refund_funds and the raise
escrow_check(t) ==
    LET tk == tasks[t]
        out == CASE tk.op = "hold" -> hold_check(ledger, tk.c, tk.snap)
                 [] tk.op = "release" -> release_check(ledger, tk.c)
                 [] tk.op = "refund" -> refund_check(ledger, tk.c)
                 [] OTHER -> "ok"
    IN  /\ ~Returning
        /\ tk.op \in {"hold", "release", "refund"}
        /\ tk.pc = "check"
        /\ IF out = "ok"
           THEN tasks' = [tasks EXCEPT ![t].pc = "commit"]
           ELSE Finish(t, out)
        /\ UNCHANGED <<ledgerVars, systemVars, fixedVars>>

\* the balance assignment, session.add(transaction) and session.commit()
escrow_commit(t) ==
    LET tk == tasks[t]
    IN  /\ ~Returning
        /\ tk.op \in EscrowOps
        /\ tk.pc = "commit"
        /\ CASE tk.op = "deposit" -> deposit_write(tk.u, tk.amt, tk.snap)
             [] tk.op = "hold" -> hold_write(tk.c, tk.snap)
             [] tk.op = "release" -> release_write(tk.c, tk.u, tk.snap)
             [] tk.op = "refund" -> refund_write(tk.c, tk.snap)
        /\ Finish(t, "ok")
        /\ UNCHANGED <<systemVars, fixedVars>>

\* ------------------------------------------------------------------- Init
NoFire == "none"

\* channel 1 is ready for ads, channel 2 has lost its admin status
ChannelConfig ==
    [ch \in Channels |-> [is_verified |-> TRUE, bot_admin_status |-> (ch = 1)]]

Init ==
    /\ status = [c \in Campaigns |-> "PENDING"]
    /\ price \in [Campaigns -> 1..MaxPrice]
    /\ balance \in {b \in [Users -> 0..MaxBalance] : b["own"] = 0}
    /\ balance0 = balance
    /\ ledger = EmptyBag
    /\ assignments = <<>>
    /\ channel = ChannelConfig
    /\ jobs = {}
    /\ due = [c \in Campaigns |-> FALSE]
    /\ expired = [c \in Campaigns |-> FALSE]
    /\ tasks = [t \in TaskIds |-> IdleTask]
    /\ fired = [c \in Campaigns |-> NoFire]

\* ------------------------------------------------- ledger specifications
EscrowCall(lim) ==
    \E t \in TaskIds :
        \/ \E u \in Users, amount \in 0..MaxDeposit : deposit_funds(t, u, amount, lim)
        \/ \E c \in Campaigns : hold_funds(t, c, lim)
        \/ \E c \in Campaigns, u \in Users : release_funds(t, c, u, lim)
        \/ \E c \in Campaigns : refund_funds(t, c, lim)

EscrowStep ==
    \E t \in TaskIds : escrow_check(t) \/ escrow_commit(t)

\* outcomes are collected as soon as a call ends: nothing else moves while
\* one waits (~Returning in every other action)
Collect == \E t \in TaskIds : ret(t)

\* the escrow calls made one after the other
NextLedger == EscrowCall(1) \/ EscrowStep \/ Collect
SpecLedger == Init /\ [][NextLedger]_vars

\* the escrow calls interleaving at their awaits
NextLedgerConc == EscrowCall(Cardinality(TaskIds)) \/ EscrowStep \/ Collect
SpecLedgerConc == Init /\ [][NextLedgerConc]_vars

\* ------------------------------------------------------------ assignments
CampaignAssignment(c, ch) ==
    [campaign_id |-> c, channel_id |-> ch, message_id |-> "None",
     posted_at |-> "None", verification_scheduled_at |-> "None",
     is_compliant |-> "None", settlement_processed |-> FALSE]

\* is_posted as it would be if the recorded message did not count
is_posted_never(a) == FALSE

is_posted(a) == a.message_id # "None" /\ a.posted_at # "None"
\* is_verified as it would be if a recorded verdict did not count
is_verified_never(a) == FALSE

is_verified(a) == a.is_compliant # "None"
is_settlement_ready(a) == is_verified(a) /\ ~a.settlement_processed
can_be_accepted(c) == status[c] = "PENDING"
\* is_ready_for_ads as it would be if the bot's admin status were not read
is_ready_for_ads_verified_only(ch) == channel[ch].is_verified

is_ready_for_ads(ch) == channel[ch].is_verified /\ channel[ch].bot_admin_status

\* select(CampaignAssignment).where(campaign_id == c); Campaign.assignment
\* (uselist=False) is one of these rows
AssignmentIds(c) == {i \in DOMAIN assignments : assignments[i].campaign_id = c}

\* job ids: n = 0 is verify_campaign_{c}, n > 0 is verify_campaign_{c}_retry_{n};
\* k tells apart jobs kept under one id (the program's store never needs it)
Job(c, n) == [c |-> c, n |-> n, k |-> 0]

\* the jobs of js kept under the id of j
SameId(js, j) == {x \in js : x.c = j.c /\ x.n = j.n}

\* scheduler.add_job(..., id=job_id, replace_existing=True): a job kept
\* under the same id is replaced
add_job(js, j) == (js \ SameId(js, j)) \cup {j}

\* schedule_campaign_verification as it would be if each call stored its
\* job under an id of its own
schedule_campaign_verification_own_id(js, c) ==
    js \cup {[Job(c, 0) EXCEPT !.k = Cardinality(SameId(js, Job(c, 0)))]}

\* schedule_campaign_verification(campaign_id, verification_time): the job
\* is stored under the id verify_campaign_{c}
schedule_campaign_verification(js, c) == add_job(js, Job(c, 0))

\* ------------------------------------------ CampaignService.accept_campaign
\* up to the select of the existing assignment
accept_campaign(t, c, ch, lim) ==
    LET existing_assignment == scalar_one_or_none(Cardinality(AssignmentIds(c)))
        tk == [IdleTask EXCEPT !.op = "accept", !.c = c, !.ch = ch]
        out == IF ~can_be_accepted(c) THEN "CampaignValidationError"
               ELSE IF ~is_ready_for_ads(ch) THEN "CampaignValidationError"
               ELSE IF existing_assignment = "MultipleResultsFound" THEN "DatabaseError"
               ELSE IF existing_assignment = "one" THEN "CampaignAlreadyAssigned"
               ELSE "ok"
    IN  /\ CanStart(t, lim)
        /\ tasks' = [tasks EXCEPT ![t] =
               IF out = "ok" THEN [tk EXCEPT !.pc = "hold_load"]
               ELSE [tk EXCEPT !.pc = "done", !.out = out]]
        /\ UNCHANGED <<ledgerVars, systemVars, fixedVars>>

\* hold_funds on the caller's session: session.get(User, advertiser_id)
accept_hold_load(t) ==
    /\ ~Returning
    /\ tasks[t].op = "accept" /\ tasks[t].pc = "hold_load"
    /\ tasks' = [tasks EXCEPT ![t].pc = "hold_check",
                              ![t].snap = balance[advertiser_id(tasks[t].c)]]
    /\ UNCHANGED <<ledgerVars, systemVars, fixedVars>>

\* accept_campaign as it would be if a failed balance test did not stop it
accept_hold_check_ignoring_funds(t) ==
    LET tk == tasks[t]
        out == hold_check(ledger, tk.c, tk.snap)
    IN  /\ ~Returning
        /\ tk.op = "accept" /\ tk.pc = "hold_check"
        /\ IF out \in {"ok", "InsufficientFunds"}
           THEN tasks' = [tasks EXCEPT ![t].pc = "hold_commit"]
           ELSE Finish(t, out)
        /\ UNCHANGED <<ledgerVars, systemVars, fixedVars>>

\* hold_funds: the existing-hold select and the balance test; only
\* InsufficientFundsError is translated, the other errors propagate
accept_hold_check(t) ==
    LET tk == tasks[t]
        out == hold_check(ledger, tk.c, tk.snap)
    IN  /\ ~Returning
        /\ tk.op = "accept" /\ tk.pc = "hold_check"
        /\ IF out = "ok" THEN tasks' = [tasks EXCEPT ![t].pc = "hold_commit"]
           ELSE IF out = "InsufficientFunds" THEN Finish(t, "CampaignValidationError")
           ELSE Finish(t, out)
        /\ UNCHANGED <<ledgerVars, systemVars, fixedVars>>

\* the debit as it would be if it were applied to the stored balance
\* (UPDATE users SET balance = balance - price) instead of the loaded one
accept_hold_commit_on_stored_balance(t) ==
    /\ ~Returning
    /\ tasks[t].op = "accept" /\ tasks[t].pc = "hold_commit"
    /\ balance' = [balance EXCEPT ![advertiser_id(tasks[t].c)] = @ - price[tasks[t].c]]
    /\ ledger' = Insert(ledger, Transaction("HOLD", advertiser_id(tasks[t].c),
                                            tasks[t].c, -price[tasks[t].c]))
    /\ tasks' = [tasks EXCEPT ![t].pc = "assign", ![t].snap = 0]
    /\ UNCHANGED <<systemVars, fixedVars>>

\* hold_funds: the debit, the HOLD row and session.commit()
accept_hold_commit(t) ==
    /\ ~Returning
    /\ tasks[t].op = "accept" /\ tasks[t].pc = "hold_commit"
    /\ hold_write(tasks[t].c, tasks[t].snap)
    /\ tasks' = [tasks EXCEPT ![t].pc = "assign", ![t].snap = 0]
    /\ UNCHANGED <<systemVars, fixedVars>>

\* campaign.status = ACTIVE, session.add(assignment), session.commit(); the
\* write is by primary key and does not re-read the status.  Shared by
\* accept_campaign and create_campaign_assignment.
assign_commit(t) ==
    LET tk == tasks[t]
    IN  /\ ~Returning
        /\ tk.op \in {"accept", "create_assignment"} /\ tk.pc = "assign"
        /\ status' = [status EXCEPT ![tk.c] = "ACTIVE"]
        /\ assignments' = Append(assignments, CampaignAssignment(tk.c, tk.ch))
        /\ Finish(t, "ok")
        /\ UNCHANGED <<ledgerVars, jobs, due, expired, fired, fixedVars>>

\* the commit raises SQLAlchemyError: rollback, the caller gets a database
\* error; what hold_funds committed before stays committed
assign_fails(t) ==
    LET tk == tasks[t]
    IN  /\ ~Returning
        /\ tk.op \in {"accept", "create_assignment"} /\ tk.pc = "assign"
        /\ Finish(t, "DatabaseError")
        /\ UNCHANGED <<ledgerVars, systemVars, fixedVars>>

\* --------------------------------- PostingService.create_campaign_assignment
\* campaign.assignment is read on a row loaded with session.get, without
\* eager loading: the lazy load either yields the row or raises
create_campaign_assignment(t, c, ch, lim) ==
    LET tk == [IdleTask EXCEPT !.op = "create_assignment", !.c = c, !.ch = ch]
        out == IF ~can_be_accepted(c) THEN "PostingServiceError"
               ELSE IF ~is_ready_for_ads(ch) THEN "PostingServiceError"
               ELSE IF AssignmentIds(c) # {} THEN "AssignmentExists"
               ELSE "ok"
    IN  /\ CanStart(t, lim)
        /\ \E lazy_load_raises \in BOOLEAN :
             tasks' = [tasks EXCEPT ![t] =
               IF out = "ok" /\ ~lazy_load_raises THEN [tk EXCEPT !.pc = "assign"]
               ELSE IF out = "ok" THEN [tk EXCEPT !.pc = "done", !.out = "DatabaseError"]
               ELSE [tk EXCEPT !.pc = "done", !.out = out]]
        /\ UNCHANGED <<ledgerVars, systemVars, fixedVars>>

\* --------------------------------------- CampaignService.cancel_campaign
\* cancel_campaign as it would be without the status test
cancel_campaign_any_status(t, c, advertiser, lim) ==
    LET tk == [IdleTask EXCEPT !.op = "cancel", !.c = c, !.u = advertiser]
        out == IF advertiser_id(c) # advertiser THEN "CampaignValidationError"
               ELSE "ok"
    IN  /\ CanStart(t, lim)
        /\ tasks' = [tasks EXCEPT ![t] =
               IF out = "ok" THEN [tk EXCEPT !.pc = "cancel_commit"]
               ELSE [tk EXCEPT !.pc = "done", !.out = out]]
        /\ UNCHANGED <<ledgerVars, systemVars, fixedVars>>

\* the ownership test and the status test, before anything is written
cancel_campaign(t, c, advertiser, lim) ==
    LET tk == [IdleTask EXCEPT !.op = "cancel", !.c = c, !.u = advertiser]
        out == IF advertiser_id(c) # advertiser THEN "CampaignValidationError"
               ELSE IF status[c] \notin {"PENDING", "ACTIVE"} THEN "CampaignValidationError"
               ELSE "ok"
    IN  /\ CanStart(t, lim)
        /\ tasks' = [tasks EXCEPT ![t] =
               IF out = "ok" THEN [tk EXCEPT !.pc = "cancel_commit"]
               ELSE [tk EXCEPT !.pc = "done", !.out = out]]
        /\ UNCHANGED <<ledgerVars, systemVars, fixedVars>>

\* campaign.status = CANCELLED; session.commit()
cancel_commit(t) ==
    /\ ~Returning
    /\ tasks[t].op = "cancel" /\ tasks[t].pc = "cancel_commit"
    /\ status' = [status EXCEPT ![tasks[t].c] = "CANCELLED"]
    /\ Finish(t, "ok")
    /\ UNCHANGED <<ledgerVars, assignments, jobs, due, expired, fired, fixedVars>>

\* ----------------------------------------- PostingService.post_campaign_ad
\* up to the is_posted guard; sched says whether a verification_service
\* was passed in
post_campaign_ad(t, aid, sched, lim) ==
    LET a == assignments[aid]
        tk == [IdleTask EXCEPT !.op = "post", !.c = a.campaign_id,
                               !.ch = a.channel_id, !.aid = aid, !.sched = sched]
    IN  /\ CanStart(t, lim)
        /\ aid \in DOMAIN assignments
        /\ tasks' = [tasks EXCEPT ![t] =
               IF is_posted(a) THEN [tk EXCEPT !.pc = "done", !.out = "PostingServiceError"]
               ELSE [tk EXCEPT !.pc = "post"]]
        /\ UNCHANGED <<ledgerVars, systemVars, fixedVars>>

GatewayPostResults == {"pinned", "pin_error", "post_failed"}

\* post_and_pin_ad as it would be if a failure of pin_message were raised
\* to the caller like a failure of post_ad_to_channel
post_and_pin_ad_pin_fatal(result) ==
    IF result \in {"post_failed", "pin_error"}
    THEN [raised |-> TRUE, pinned |-> FALSE, pin_error |-> "None"]
    ELSE [raised |-> FALSE, pinned |-> TRUE, pin_error |-> "None"]

\* ChannelService.post_and_pin_ad for each answer of the gateway: an error
\* of post_ad_to_channel is raised to the caller, an error of pin_message
\* is caught and returned in the result as pinned: False with pin_error
post_and_pin_ad(result) ==
    IF result = "post_failed"
    THEN [raised |-> TRUE, pinned |-> FALSE, pin_error |-> "None"]
    ELSE [raised |-> FALSE, pinned |-> (result = "pinned"),
          pin_error |-> IF result = "pin_error" THEN "set" ELSE "None"]

\* post_campaign_ad after post_and_pin_ad as it would be if the except
\* clause did not write the campaign's status
post_result_status_kept(t, result) ==
    LET tk == tasks[t]
        posting_result == post_and_pin_ad(result)
    IN  /\ ~Returning
        /\ tk.op = "post" /\ tk.pc = "post"
        /\ IF posting_result.raised
           THEN /\ tasks' = [tasks EXCEPT ![t] =
                       [Ended(tk, "PostingServiceError") EXCEPT !.gw = result]]
                /\ UNCHANGED <<status, assignments, jobs, due>>
           ELSE /\ assignments' = [assignments EXCEPT ![tk.aid] =
                       [@ EXCEPT !.message_id = "msg", !.posted_at = "set",
                                 !.verification_scheduled_at = "set"]]
                /\ due' = [due EXCEPT ![tk.c] = FALSE]
                /\ jobs' = IF tk.sched THEN schedule_campaign_verification(jobs, tk.c) ELSE jobs
                /\ tasks' = [tasks EXCEPT ![t] =
                       [Ended(tk, IF posting_result.pinned THEN "pinned"
                                  ELSE "pin_error")
                          EXCEPT !.gw = result, !.sched = tk.sched,
                                 !.rc = Cardinality(SameId(jobs, Job(tk.c, 0)))]]
                /\ UNCHANGED status
        /\ UNCHANGED <<ledgerVars, expired, fired, fixedVars>>

\* post_and_pin_ad answers; on success the assignment is written and the
\* one-shot job added (replace_existing), and the result carries pinned
\* and pin_error; on failure the campaign is FAILED.  Next to the outcome
\* gw keeps the gateway's answer, sched whether a verification service
\* was given and rc how many jobs verify_campaign_{c} the store held.
post_result(t, result) ==
    LET tk == tasks[t]
        posting_result == post_and_pin_ad(result)
    IN  /\ ~Returning
        /\ tk.op = "post" /\ tk.pc = "post"
        /\ IF posting_result.raised
           THEN /\ status' = [status EXCEPT ![tk.c] = "FAILED"]
                /\ tasks' = [tasks EXCEPT ![t] =
                       [Ended(tk, "PostingServiceError") EXCEPT !.gw = result]]
                /\ UNCHANGED <<assignments, jobs, due>>
           ELSE /\ assignments' = [assignments EXCEPT ![tk.aid] =
                       [@ EXCEPT !.message_id = "msg", !.posted_at = "set",
                                 !.verification_scheduled_at = "set"]]
                /\ due' = [due EXCEPT ![tk.c] = FALSE]
                /\ jobs' = IF tk.sched THEN schedule_campaign_verification(jobs, tk.c) ELSE jobs
                /\ tasks' = [tasks EXCEPT ![t] =
                       [Ended(tk, IF posting_result.pinned THEN "pinned"
                                  ELSE "pin_error")
                          EXCEPT !.gw = result, !.sched = tk.sched,
                                 !.rc = Cardinality(SameId(jobs, Job(tk.c, 0)))]]
                /\ UNCHANGED status
        /\ UNCHANGED <<ledgerVars, expired, fired, fixedVars>>

\* ---------------------------------------------------------------- the clock
\* now passes verification_scheduled_at of the campaign's posted assignment
pass_verification_time(c) ==
    /\ ~Returning
    /\ ~due[c]
    /\ \E i \in AssignmentIds(c) : assignments[i].verification_scheduled_at # "None"
    /\ due' = [due EXCEPT ![c] = TRUE]
    /\ UNCHANGED <<ledgerVars, status, assignments, jobs, expired,
                   fired, tasks, fixedVars>>

\* now passes expires_at (only read while the campaign is PENDING)
pass_expiry(c) ==
    /\ ~Returning
    /\ ~expired[c]
    /\ status[c] = "PENDING"
    /\ expired' = [expired EXCEPT ![c] = TRUE]
    /\ UNCHANGED <<ledgerVars, status, assignments, jobs, due,
                   fired, tasks, fixedVars>>

\* -------------------------------------------------- VerificationService
VerifyOps == {"job", "retry", "force"}

\* _schedule_verification_retry as it would be if the cap test let one more
\* retry through
schedule_verification_retry_one_more(t, tk, lvl) ==
    IF tk.rc > max_retries + 1
    THEN /\ tasks' = [tasks EXCEPT ![t] =
               [tk EXCEPT !.pc = "status", !.target = "FAILED", !.lvl = lvl,
                          !.forced = (tk.forced \/ lvl = 0), !.snap = 0]]
         /\ UNCHANGED jobs
    ELSE /\ jobs' = add_job(jobs, Job(tk.c, tk.rc))
         /\ tasks' = [tasks EXCEPT ![t] = Ended(tk, "retry_scheduled")]

\* _schedule_verification_retry(campaign_id, error, retry_count) called by
\* task record tk, at handler depth lvl (0: in the try body, 1: in the
\* except clause): past the cap it goes on to _process_failed_campaign,
\* else it adds the retry job, whose argument is retry_count + 1.  forced
\* records that the cap was hit by a check that reported success: False.
schedule_verification_retry(t, tk, lvl) ==
    IF tk.rc > max_retries
    THEN /\ tasks' = [tasks EXCEPT ![t] =
               [tk EXCEPT !.pc = "status", !.target = "FAILED", !.lvl = lvl,
                          !.forced = (tk.forced \/ lvl = 0), !.snap = 0]]
         /\ UNCHANGED jobs
    ELSE /\ jobs' = add_job(jobs, Job(tk.c, tk.rc))
         /\ tasks' = [tasks EXCEPT ![t] = Ended(tk, "retry_scheduled")]

\* an exception leaves the current call of task tk
raise(t, tk) ==
    IF tk.op \in {"job", "retry"} /\ tk.lvl = 0
    THEN schedule_verification_retry(t, tk, 1)
    ELSE /\ tasks' = [tasks EXCEPT ![t] = Ended(tk, "error")]
         /\ UNCHANGED jobs

\* _verify_single_campaign returned success: False
check_failed(t, tk) ==
    IF tk.op = "force"
    THEN /\ tasks' = [tasks EXCEPT ![t] = Ended(tk, "error")]
         /\ UNCHANGED jobs
    ELSE schedule_verification_retry(t, tk, tk.lvl)

\* _verify_single_campaign returned success: True
check_succeeded(t, tk, compliant, already_verified) ==
    /\ tasks' = [tasks EXCEPT ![t] =
          IF tk.op = "force" /\ already_verified
          THEN Ended(tk, "already_verified")
          ELSE [tk EXCEPT !.pc = "status",
                          !.target = IF compliant THEN "COMPLETED" ELSE "FAILED"]]
    /\ UNCHANGED jobs

\* the scheduler runs a date-triggered job: it leaves the job store and
\* _verify_campaign_job / _verify_campaign_retry_job starts
fire_job(t, j, lim) ==
    /\ CanStart(t, lim)
    /\ j \in jobs
    /\ j.n = 0 => due[j.c]
    /\ jobs' = jobs \ {j}
    /\ tasks' = [tasks EXCEPT ![t] =
          [IdleTask EXCEPT !.op = IF j.n = 0 THEN "job" ELSE "retry",
                           !.pc = "verify", !.c = j.c, !.sched = (j.n = 0),
                           !.rc = IF j.n = 0 THEN 1 ELSE j.n + 1]]
    /\ fired' = [fired EXCEPT ![j.c] =
          IF /\ j.n = 0
             /\ status[j.c] = "ACTIVE"
             /\ CompletedOf(ledger, "HOLD", j.c) = 1
             /\ CompletedOf(ledger, "REFUND", j.c) = 0
             /\ CompletedOf(ledger, "RELEASE", j.c) = 0
             /\ \A i \in AssignmentIds(j.c) :
                    is_posted(assignments[i]) /\ ~is_verified(assignments[i])
          THEN "active_held" ELSE @]
    /\ UNCHANGED <<ledgerVars, status, assignments, due, expired, fixedVars>>

\* _periodic_verification_check meets one overdue assignment returned by
\* get_assignments_for_verification.  The row is detached (its session is
\* closed) and assignment.campaign is not loaded: the read either raises,
\* which the sweep logs and ends on, or yields the campaign, and then, with
\* no job verify_campaign_{c} in the store, _verify_campaign_job is awaited
periodic_verification_check(t, aid, lim) ==
    /\ CanStart(t, lim)
    /\ aid \in DOMAIN assignments
    /\ LET a == assignments[aid]
       IN  /\ due[a.campaign_id]
           /\ a.verification_scheduled_at # "None"
           /\ a.is_compliant = "None"
           /\ a.message_id # "None"
           /\ \/ tasks' = [tasks EXCEPT ![t] =
                    [IdleTask EXCEPT !.op = "sweep", !.pc = "done",
                                     !.c = a.campaign_id, !.aid = aid,
                                     !.out = "error"]]
              \/ /\ Job(a.campaign_id, 0) \notin jobs
                 /\ tasks' = [tasks EXCEPT ![t] =
                       [IdleTask EXCEPT !.op = "job", !.pc = "verify",
                                        !.c = a.campaign_id, !.rc = 1]]
    /\ UNCHANGED <<ledgerVars, systemVars, fixedVars>>

\* force_verification(campaign_id)
force_verification(t, c, lim) ==
    /\ CanStart(t, lim)
    /\ tasks' = [tasks EXCEPT ![t] =
          [IdleTask EXCEPT !.op = "force", !.pc = "verify", !.c = c]]
    /\ UNCHANGED <<ledgerVars, systemVars, fixedVars>>

\* cancel_verification(campaign_id): lookup-and-remove of verify_campaign_{c}
cancel_verification(c) ==
    /\ ~Returning
    /\ Job(c, 0) \in jobs
    /\ jobs' = jobs \ {Job(c, 0)}
    /\ UNCHANGED <<ledgerVars, status, assignments, due, expired,
                   fired, tasks, fixedVars>>

\* _verify_single_campaign: get_campaign_by_id, the assignment guards, and
\* the guards verify_campaign_compliance repeats on the assignment row; a
\* persistence error here is caught and reported as success: False
verify_read(t) ==
    LET tk == tasks[t]
        ids == AssignmentIds(tk.c)
    IN  /\ ~Returning
        /\ tk.op \in VerifyOps /\ tk.pc = "verify"
        /\ \/ \* the query raises
              check_failed(t, tk)
           \/ /\ ids = {}
              /\ check_failed(t, tk)
           \/ \E aid \in ids :
                LET a == assignments[aid]
                IN  IF ~is_posted(a) THEN check_failed(t, tk)
                    ELSE IF is_verified(a)
                    THEN check_succeeded(t, tk, a.is_compliant = "True", TRUE)
                    ELSE /\ tasks' = [tasks EXCEPT ![t] =
                               [tk EXCEPT !.pc = "gateway", !.aid = aid]]
                         /\ UNCHANGED jobs
        /\ UNCHANGED <<ledgerVars, status, assignments, due, expired, fired, fixedVars>>

GatewayPinResults == {"pinned", "unpinned", "api_error"}

\* verify_message_pinned answers and verify_campaign_compliance commits
\* is_compliant: the pinned flag, or False when the gateway raised
\* (TelegramAPIError -> BotPermissionError -> is_compliant = False).
\* fired keeps what the scheduled one-shot job was answered.
verify_gateway(t, result) ==
    LET tk == tasks[t]
        is_pinned == (result = "pinned")
    IN  /\ ~Returning
        /\ tk.op \in VerifyOps /\ tk.pc = "gateway"
        /\ assignments' = [assignments EXCEPT ![tk.aid].is_compliant =
                               IF is_pinned THEN "True" ELSE "False"]
        /\ fired' = [fired EXCEPT ![tk.c] =
              IF tk.op = "job" /\ tk.sched /\ @ = "active_held" THEN result ELSE @]
        /\ check_succeeded(t, [tk EXCEPT !.gw = result], is_pinned, FALSE)
        /\ UNCHANGED <<ledgerVars, status, due, expired, fixedVars>>

\* update_campaign_status(campaign_id, target, bot): the status write is
\* committed first; on a change into COMPLETED / FAILED the notification
\* block reads campaign.assignment (not loaded: the lazy load may raise).
\* For COMPLETED the next call is release_funds(campaign_id), which lacks
\* the recipient argument and raises TypeError before doing anything.
process_status(t) ==
    LET tk == tasks[t]
        old_status == status[tk.c]
    IN  /\ ~Returning
        /\ tk.op \in VerifyOps /\ tk.pc = "status"
        /\ status' = [status EXCEPT ![tk.c] = tk.target]
        /\ IF tk.target = "COMPLETED"
           THEN raise(t, tk)
           ELSE \/ /\ old_status # tk.target
                   /\ raise(t, tk)
                \/ /\ tasks' = [tasks EXCEPT ![t].pc = "refund_load"]
                   /\ UNCHANGED jobs
        /\ UNCHANGED <<ledgerVars, assignments, due, expired, fired, fixedVars>>

\* _cleanup_expired_campaigns, one campaign of get_expired_campaigns()
cleanup_expired_campaigns(t, c, lim) ==
    /\ CanStart(t, lim)
    /\ status[c] = "PENDING" /\ expired[c]
    /\ tasks' = [tasks EXCEPT ![t] =
          [IdleTask EXCEPT !.op = "cleanup", !.pc = "status", !.c = c,
                           !.target = "CANCELLED"]]
    /\ UNCHANGED <<ledgerVars, systemVars, fixedVars>>

\* _cleanup_expired_campaigns as it would be if it left the status alone
cleanup_status_unchanged(t) ==
    LET tk == tasks[t]
    IN  /\ ~Returning
        /\ tk.op = "cleanup" /\ tk.pc = "status"
        /\ UNCHANGED status
        /\ \/ Finish(t, "error")
           \/ IF AssignmentIds(tk.c) # {}
              THEN tasks' = [tasks EXCEPT ![t].pc = "refund_load"]
              ELSE Finish(t, "ok")
        /\ UNCHANGED <<ledgerVars, assignments, jobs, due, expired,
                       fired, fixedVars>>

\* update_campaign_status(campaign.id, CANCELLED, bot), then the test of
\* campaign.assignment on the row get_expired_campaigns returned (its
\* session is closed and the relationship was not loaded: the lazy load
\* may raise, which the loop logs)
cleanup_status(t) ==
    LET tk == tasks[t]
    IN  /\ ~Returning
        /\ tk.op = "cleanup" /\ tk.pc = "status"
        /\ status' = [status EXCEPT ![tk.c] = "CANCELLED"]
        /\ \/ Finish(t, "error")
           \/ IF AssignmentIds(tk.c) # {}
              THEN tasks' = [tasks EXCEPT ![t].pc = "refund_load"]
              ELSE Finish(t, "ok")
        /\ UNCHANGED <<ledgerVars, assignments, jobs, due, expired,
                       fired, fixedVars>>

SettleOps == {"job", "retry", "force", "cleanup"}

\* refund_funds(campaign_id) called by the scheduler: session.get(User)
settle_refund_load(t) ==
    /\ ~Returning
    /\ tasks[t].op \in SettleOps /\ tasks[t].pc = "refund_load"
    /\ tasks' = [tasks EXCEPT ![t].pc = "refund_check",
                              ![t].snap = balance[advertiser_id(tasks[t].c)]]
    /\ UNCHANGED <<ledgerVars, systemVars, fixedVars>>

\* refund_funds: the three selects; a rejection is an exception to the caller
settle_refund_check(t) ==
    LET tk == tasks[t]
    IN  /\ ~Returning
        /\ tk.op \in SettleOps /\ tk.pc = "refund_check"
        /\ IF refund_check(ledger, tk.c) = "ok"
           THEN /\ tasks' = [tasks EXCEPT ![t].pc = "refund_commit"]
                /\ UNCHANGED jobs
           ELSE raise(t, tk)
        /\ UNCHANGED <<ledgerVars, status, assignments, due, expired, fired, fixedVars>>

\* refund_funds: the credit, the REFUND row and session.commit()
settle_refund_commit(t) ==
    /\ ~Returning
    /\ tasks[t].op \in SettleOps /\ tasks[t].pc = "refund_commit"
    /\ refund_write(tasks[t].c, tasks[t].snap)
    /\ Finish(t, "ok")
    /\ UNCHANGED <<systemVars, fixedVars>>

\* ------------------------------------------------- system specifications
Call(lim) ==
    \E t \in TaskIds :
        \/ \E c \in Campaigns, ch \in Channels : accept_campaign(t, c, ch, lim)
        \/ \E c \in Campaigns, ch \in Channels : create_campaign_assignment(t, c, ch, lim)
        \/ \E c \in Campaigns, u \in Users : cancel_campaign(t, c, u, lim)
        \/ \E aid \in DOMAIN assignments, sched \in BOOLEAN : post_campaign_ad(t, aid, sched, lim)
        \/ \E j \in jobs : fire_job(t, j, lim)
        \/ \E aid \in DOMAIN assignments : periodic_verification_check(t, aid, lim)
        \/ \E c \in Campaigns : force_verification(t, c, lim)
        \/ \E c \in Campaigns : cleanup_expired_campaigns(t, c, lim)

Step ==
    \E t \in TaskIds :
        \/ accept_hold_load(t)
        \/ accept_hold_check(t)
        \/ accept_hold_commit(t)
        \/ assign_commit(t)
        \/ assign_fails(t)
        \/ cancel_commit(t)
        \/ \E r \in GatewayPostResults : post_result(t, r)
        \/ verify_read(t)
        \/ \E r \in GatewayPinResults : verify_gateway(t, r)
        \/ process_status(t)
        \/ cleanup_status(t)
        \/ settle_refund_load(t)
        \/ settle_refund_check(t)
        \/ settle_refund_commit(t)

Clock ==
    \E c \in Campaigns :
        \/ pass_verification_time(c)
        \/ pass_expiry(c)
        \/ cancel_verification(c)

\* the service calls and the scheduler's jobs, run one after the other (the
\* states between the awaits of one call are states of the system)
Next == Call(1) \/ Step \/ Clock \/ Collect
Spec == Init /\ [][Next]_vars

\* ------------------------------------------------------------------ ledger
Holds(c) == CompletedOf(ledger, "HOLD", c)
Releases(c) == CompletedOf(ledger, "RELEASE", c)
Refunds(c) == CompletedOf(ledger, "REFUND", c)

\* C1: after any sequence of hold / release / refund calls a campaign has
\* at most one of a COMPLETED RELEASE and a COMPLETED REFUND, never both.
C1_ReleaseXorRefund ==
    \A c \in Campaigns : ~(Releases(c) >= 1 /\ Refunds(c) >= 1)

\* C2: after a hold, concurrent release attempts on the same campaign leave
\* exactly one COMPLETED RELEASE entry (the loser fails as already settled).
C2_OneReleaseUnderConcurrency ==
    \A c \in Campaigns : Releases(c) <= 1

\* C3: holds made in sequence leave at most one COMPLETED HOLD per campaign;
\* the hold that is committed debits the advertiser by exactly the price, and
\* a hold called when a COMPLETED HOLD exists (settled since or not) fails
\* with FundsAlreadyHeld and changes neither the balances nor the ledger.
C3_NoDoubleHold ==
    /\ [](\A c \in Campaigns : Holds(c) <= 1)
    /\ [][\A c \in Campaigns :
            /\ CompletedOf(ledger', "HOLD", c) = Holds(c) + 1
                => balance'[advertiser_id(c)] = balance[advertiser_id(c)] - price[c]
            /\ \A t \in TaskIds :
                  ( /\ tasks[t].op = "hold" /\ tasks[t].pc = "check" /\ tasks[t].c = c
                    /\ tasks'[t] # tasks[t]
                    /\ Holds(c) >= 1 )
                  => ( /\ tasks'[t].pc = "done"
                       /\ tasks'[t].out = "FundsAlreadyHeld"
                       /\ balance' = balance
                       /\ ledger' = ledger )]_vars

\* a second hold was rejected after the first one had been refunded
C3_Witness ==
    \E t \in TaskIds :
        /\ Done(t, "hold", "FundsAlreadyHeld")
        /\ Refunds(tasks[t].c) = 1
        /\ Holds(tasks[t].c) = 1

\* ------------------------------------------------------------------ system
Terminal == {"COMPLETED", "FAILED", "CANCELLED"}

\* no call is running and no job of campaign c is in the job store
Quiescent(c) ==
    /\ \A t \in TaskIds : tasks[t].op = "idle" \/ tasks[t].pc = "done"
    /\ \A j \in jobs : j.c # c

\* C4: when the one-shot job has fired on a posted assignment of an ACTIVE,
\* held campaign and was answered that the message is pinned, then once all
\* work for the campaign is over the campaign is COMPLETED, the channel
\* owner has gained exactly the price, and the ledger has one RELEASE and
\* no REFUND for the campaign.
C4_ScenarioC ==
    \A c \in Campaigns :
        (fired[c] = "pinned" /\ Quiescent(c))
        => /\ status[c] = "COMPLETED"
           /\ Releases(c) = 1
           /\ Refunds(c) = 0
           /\ \A i \in AssignmentIds(c) :
                balance[owner_id(assignments[i].channel_id)]
                    = balance0[owner_id(assignments[i].channel_id)] + price[c]

\* C5: a campaign marked COMPLETED is never marked FAILED later, nor the
\* reverse, and it never has more than one settlement entry.
C5_OneTerminalAction ==
    [][\A c \in Campaigns :
          /\ status[c] = "COMPLETED" => status'[c] # "FAILED"
          /\ status[c] = "FAILED" => status'[c] # "COMPLETED"
          /\ CompletedOf(ledger', "RELEASE", c) + CompletedOf(ledger', "REFUND", c) <= 1]_vars

\* C6: once COMPLETED, FAILED or CANCELLED, a campaign's status never
\* changes again.
C6_TerminalIsFinal ==
    [][\A c \in Campaigns : status[c] \in Terminal => status'[c] = status[c]]_vars

\* C7: a verification run whose is_still_pinned call raised leaves the
\* assignment's compliance unset.
C7_GatewayErrorIsUnknown ==
    \A t \in TaskIds :
        tasks[t].gw = "api_error" => assignments[tasks[t].aid].is_compliant = "None"

\* a verification run of campaign c that met the retry cap on a check that
\* reported an error, and has ended
ForcedRun(t, c) ==
    tasks[t].pc = "done" /\ tasks[t].forced /\ tasks[t].c = c

\* C8: while the verification check keeps erroring, the job store never
\* holds a retry job numbered above max_retries (so at most max_retries
\* retry jobs of a campaign are scheduled); the run that carries a retry
\* count above max_retries adds no job; and when the check of that run
\* errors too, the run ends with the campaign FAILED and, where its funds
\* were held and not settled, with exactly one REFUND that credits the
\* advertiser with the price.
C8_RetryCap ==
    /\ [](\A j \in jobs : j.n <= max_retries)
    /\ [](\A c \in Campaigns :
            Cardinality({j \in jobs : j.c = c /\ j.n > 0}) <= max_retries)
    /\ [][\A t \in TaskIds :
            (tasks[t].rc > max_retries /\ tasks'[t] # tasks[t]) => jobs' \subseteq jobs]_vars
    /\ [](\A c \in Campaigns : \A t \in TaskIds :
            (ForcedRun(t, c) /\ Holds(c) = 1 /\ Releases(c) = 0)
            => /\ status[c] = "FAILED"
               /\ Refunds(c) = 1
               /\ balance[advertiser_id(c)] = balance0[advertiser_id(c)])

\* the third retry (retry count max_retries + 1) errored on a held campaign
\* and the forced failure refunded it
C8_Witness ==
    \E c \in Campaigns : \E t \in TaskIds :
        /\ ForcedRun(t, c)
        /\ tasks[t].op = "retry" /\ tasks[t].rc = max_retries + 1
        /\ status[c] = "FAILED" /\ Holds(c) = 1 /\ Refunds(c) = 1

\* C9: when the one-shot job has fired on a posted assignment of an ACTIVE,
\* held campaign and was answered that the message is not pinned, then once
\* all work for the campaign is over the campaign is FAILED, the
\* advertiser's balance is what it was before the hold, and the ledger has
\* one REFUND and no RELEASE for the campaign.
C9_ScenarioD ==
    \A c \in Campaigns :
        (fired[c] = "unpinned" /\ Quiescent(c))
        => /\ status[c] = "FAILED"
           /\ Refunds(c) = 1
           /\ Releases(c) = 0
           /\ balance[advertiser_id(c)] = balance0[advertiser_id(c)]

\* the job found the message unpinned and the campaign was refunded
C9_Witness ==
    \E c \in Campaigns :
        /\ fired[c] = "unpinned" /\ Quiescent(c)
        /\ status[c] = "FAILED" /\ Refunds(c) = 1

\* C10: in every reachable state a campaign has a COMPLETED HOLD entry if
\* and only if it has an assignment.
C10_HoldIffAssignment ==
    \A c \in Campaigns : (Holds(c) >= 1) <=> (AssignmentIds(c) # {})

\* C11: the commit of cancel_campaign on an ACTIVE campaign whose funds are
\* held leaves the campaign CANCELLED, with the escrow refunded (the
\* campaign has a REFUND) and with no verification job of the campaign in
\* the job store.
C11_CancelReconciles ==
    [][\A t \in TaskIds :
          LET c == tasks[t].c
          IN  ( /\ tasks[t].op = "cancel" /\ tasks[t].pc = "cancel_commit"
                /\ tasks'[t].pc = "done"
                /\ status[c] = "ACTIVE"
                /\ Holds(c) >= 1 )
              => ( /\ status'[c] = "CANCELLED"
                   /\ CompletedOf(ledger', "REFUND", c) >= 1
                   /\ \A j \in jobs' : j.c # c )]_vars

\* the accept of task t is at or past its call of hold_funds and has not
\* returned
InHold(t) ==
    tasks[t].op = "accept" /\ tasks[t].pc \in {"hold_load", "hold_check"}

\* C12: an accept of a PENDING campaign whose advertiser's balance is below
\* the price never reaches a write: each of its steps leaves the status, the
\* balances, the assignments and the ledger as they were, and when no hold
\* exists for the campaign it ends with the validation error that
\* accept_campaign makes of InsufficientFunds.
C12_ScenarioA ==
    [][\A t \in TaskIds :
          LET c == tasks[t].c
          IN  ( /\ InHold(t)
                /\ tasks'[t] # tasks[t]
                /\ balance[advertiser_id(c)] < price[c] )
              => ( /\ status' = status
                   /\ balance' = balance
                   /\ assignments' = assignments
                   /\ ledger' = ledger
                   /\ tasks'[t].pc \in {"hold_check", "done"}
                   /\ (tasks'[t].pc = "done" /\ Holds(c) = 0)
                         => tasks'[t].out = "CampaignValidationError" )]_vars

\* an accept by the ready channel failed for lack of funds and nothing was
\* persisted
C12_Witness ==
    \E t \in TaskIds :
        /\ Done(t, "accept", "CampaignValidationError")
        /\ is_ready_for_ads(tasks[t].ch)
        /\ status[tasks[t].c] = "PENDING"
        /\ balance[advertiser_id(tasks[t].c)] < price[tasks[t].c]
        /\ balance = balance0
        /\ ledger = EmptyBag /\ assignments = <<>>

\* what accept_campaign requires of campaign c and channel ch, at a moment
\* when nothing has been held for the campaign yet
Acceptable(c, ch) ==
    /\ status[c] = "PENDING"
    /\ channel[ch].is_verified /\ channel[ch].bot_admin_status
    /\ AssignmentIds(c) = {}
    /\ Holds(c) = 0
    /\ balance[advertiser_id(c)] >= price[c]

\* C13: an accept of a PENDING, unassigned campaign by a ready channel with
\* enough funds is refused for no reason (it ends ok unless the store
\* fails); its hold debits the advertiser by exactly the price; and when it
\* has returned ok the campaign is ACTIVE, has exactly one COMPLETED HOLD,
\* of amount -price, and exactly one assignment, to the accepting channel.
C13_ScenarioB ==
    /\ [](\A t \in TaskIds :
            LET c == tasks[t].c
            IN  /\ (tasks[t].op = "accept" /\ tasks[t].pc = "done"
                        /\ Acceptable(c, tasks[t].ch))
                    => tasks[t].out = "DatabaseError"
                /\ Done(t, "accept", "ok")
                    => /\ status[c] = "ACTIVE"
                       /\ Holds(c) = 1
                       /\ \A r \in Matching(ledger, "HOLD", c) : r.amount = -price[c]
                       /\ Cardinality(AssignmentIds(c)) = 1
                       /\ \A i \in AssignmentIds(c) :
                             assignments[i].channel_id = tasks[t].ch
                       /\ balance[advertiser_id(c)]
                             = balance0[advertiser_id(c)] - price[c])
    /\ [][\A t \in TaskIds :
            (tasks[t].op = "accept" /\ tasks[t].pc = "hold_commit"
                /\ tasks'[t] # tasks[t])
            => balance'[advertiser_id(tasks[t].c)]
                 = balance[advertiser_id(tasks[t].c)] - price[tasks[t].c]]_vars

\* an accept has returned ok
C13_Witness ==
    \E t \in TaskIds :
        /\ Done(t, "accept", "ok")
        /\ status[tasks[t].c] = "ACTIVE"
        /\ Holds(tasks[t].c) = 1

\* C14: release_funds and refund_funds on a campaign with no COMPLETED HOLD
\* end with FundsNotHeld and change neither a balance nor the ledger.
C14_SettlementNeedsHold ==
    [][\A t \in TaskIds :
          ( /\ tasks[t].op \in {"release", "refund"} /\ tasks[t].pc = "check"
            /\ tasks'[t] # tasks[t]
            /\ Holds(tasks[t].c) = 0 )
          => ( /\ tasks'[t].pc = "done"
               /\ tasks'[t].out = "FundsNotHeld"
               /\ balance' = balance
               /\ ledger' = ledger )]_vars

\* a release has been turned down for lack of a hold
C14_Witness ==
    /\ \E t \in TaskIds : Done(t, "release", "FundsNotHeld")
    /\ \A c \in Campaigns : Holds(c) = 0

\* sum of the balances in b
Total(b) == b["adv"] + b["own"]

\* C15: a held campaign that is COMPLETED, with all work for it over, has
\* exactly one COMPLETED HOLD and one COMPLETED RELEASE: the advertiser is
\* down by the price, the channel owner is up by the price, and the sum of
\* all balances is what it was before the hold.
C15_Conservation ==
    \A c \in Campaigns :
        (status[c] = "COMPLETED" /\ Quiescent(c) /\ Holds(c) >= 1)
        => /\ Holds(c) = 1
           /\ Releases(c) = 1
           /\ balance[advertiser_id(c)] = balance0[advertiser_id(c)] - price[c]
           /\ Total(balance) = Total(balance0)

\* ------------------------------------------- verification runs interleaving
\* the state after accept_campaign(c, channel 1) and a successful
\* post_campaign_ad with the verification service passed in: the campaign
\* is ACTIVE, its price is held (the advertiser had just the price), its
\* assignment is posted and the one-shot job is in the job store
InitVerifyConc ==
    /\ status = [c \in Campaigns |-> "ACTIVE"]
    /\ price \in [Campaigns -> 1..MaxPrice]
    /\ balance0 \in {b \in [Users -> 0..MaxBalance] :
                       b["own"] = 0 /\ \A c \in Campaigns : b["adv"] = price[c]}
    /\ balance = [balance0 EXCEPT !["adv"] = @ - price[1]]
    /\ ledger = SetToBag({Transaction("HOLD", "adv", 1, -price[1])})
    /\ assignments = <<[CampaignAssignment(1, 1) EXCEPT
                           !.message_id = "msg", !.posted_at = "set",
                           !.verification_scheduled_at = "set"]>>
    /\ channel = ChannelConfig
    /\ jobs = {Job(1, 0)}
    /\ due = [c \in Campaigns |-> FALSE]
    /\ expired = [c \in Campaigns |-> FALSE]
    /\ tasks = [t \in TaskIds |-> IdleTask]
    /\ fired = [c \in Campaigns |-> NoFire]

\* the verification runs (the one-shot job, its retries, the sweep and
\* force_verification) interleave at their awaits
VerifyCall ==
    \E t \in TaskIds :
        \/ \E j \in jobs : fire_job(t, j, Cardinality(TaskIds))
        \/ \E aid \in DOMAIN assignments : periodic_verification_check(t, aid, Cardinality(TaskIds))
        \/ \E c \in Campaigns : force_verification(t, c, Cardinality(TaskIds))

VerifyStep ==
    \E t \in TaskIds :
        \/ verify_read(t)
        \/ \E r \in GatewayPinResults : verify_gateway(t, r)
        \/ process_status(t)
        \/ settle_refund_load(t)
        \/ settle_refund_check(t)
        \/ settle_refund_commit(t)

NextVerifyConc ==
    \/ VerifyCall
    \/ VerifyStep
    \/ \E c \in Campaigns : pass_verification_time(c)
    \/ Collect
SpecVerifyConc == InitVerifyConc /\ [][NextVerifyConc]_vars

\* Spec reaches the states SpecVerifyConc starts from
PostedAndScheduled ==
    /\ status = [c \in Campaigns |-> "ACTIVE"]
    /\ balance = [balance0 EXCEPT !["adv"] = @ - price[1]]
    /\ ledger = SetToBag({Transaction("HOLD", "adv", 1, -price[1])})
    /\ assignments = <<[CampaignAssignment(1, 1) EXCEPT
                           !.message_id = "msg", !.posted_at = "set",
                           !.verification_scheduled_at = "set"]>>
    /\ jobs = {Job(1, 0)}
    /\ due = [c \in Campaigns |-> FALSE]
    /\ expired = [c \in Campaigns |-> FALSE]
    /\ tasks = [t \in TaskIds |-> IdleTask]
    /\ fired = [c \in Campaigns |-> NoFire]

\* C16: once an assignment's compliance is recorded (True or False) no
\* verification run, however the runs interleave, writes a different
\* verdict over it.
C16_ComplianceOnce ==
    [][\A i \in DOMAIN assignments :
          assignments[i].is_compliant # "None"
          => assignments'[i].is_compliant = assignments[i].is_compliant]_vars

\* the verdict a verification run of task record tk goes on with
VerdictOf(tk) == IF tk.target = "COMPLETED" THEN "True" ELSE "False"

\* C17: a verification run made after a verdict was recorded on the posted
\* assignment (runs made one after the other) makes no Gateway call, leaves
\* the recorded verdict as it is, and, unless its query fails, goes on with
\* exactly the recorded verdict.
C17_IdempotentVerification ==
    [][\A t \in TaskIds : \A i \in AssignmentIds(tasks[t].c) :
          ( /\ tasks[t].op \in VerifyOps /\ tasks[t].pc = "verify"
            /\ tasks'[t] # tasks[t]
            /\ assignments[i].message_id # "None"
            /\ assignments[i].is_compliant # "None" )
          => ( /\ tasks'[t].pc # "gateway"
               /\ assignments' = assignments
               /\ (tasks'[t].pc = "status" /\ ~tasks'[t].forced)
                     => VerdictOf(tasks'[t]) = assignments[i].is_compliant
               /\ tasks'[t].pc = "done"
                     => tasks'[t].out \in {"already_verified", "retry_scheduled", "error"} )]_vars

\* a run that made no Gateway call goes on with the verdict an earlier run
\* recorded
C17_Witness ==
    \E t \in TaskIds : \E i \in AssignmentIds(tasks[t].c) :
        /\ tasks[t].op \in VerifyOps /\ tasks[t].pc = "status"
        /\ tasks[t].gw = "none" /\ ~tasks[t].forced
        /\ assignments[i].is_compliant = "False"
        /\ tasks[t].target = "FAILED"

\* C18: when the cleanup has finished with an expired PENDING campaign for
\* which funds are held, the campaign has a REFUND: no cancelled campaign
\* keeps its escrow.
C18_CleanupRefunds ==
    \A t \in TaskIds :
        (tasks[t].op = "cleanup" /\ tasks[t].pc = "done" /\ Holds(tasks[t].c) >= 1)
        => Refunds(tasks[t].c) >= 1

\* C19: the cleanup of an expired campaign that is PENDING and has no
\* assignment appends no ledger entry and changes no balance, and when it
\* has finished the campaign is CANCELLED.
C19_ScenarioF ==
    /\ [][\A t \in TaskIds :
            ( /\ tasks[t].op = "cleanup"
              /\ tasks'[t] # tasks[t]
              /\ AssignmentIds(tasks[t].c) = {} )
            => (balance' = balance /\ ledger' = ledger)]_vars
    /\ [](\A t \in TaskIds :
            (tasks[t].op = "cleanup" /\ tasks[t].pc = "done"
                /\ AssignmentIds(tasks[t].c) = {})
            => status[tasks[t].c] = "CANCELLED")

\* the cleanup has cancelled an expired campaign that nobody accepted
C19_Witness ==
    \E t \in TaskIds :
        /\ Done(t, "cleanup", "ok")
        /\ expired[tasks[t].c]
        /\ status[tasks[t].c] = "CANCELLED"
        /\ AssignmentIds(tasks[t].c) = {}
        /\ ledger = EmptyBag /\ balance = balance0

\* ---------------------------------------------------- accepts interleaving
\* both channels are verified and have the bot as administrator
InitAcceptConc ==
    /\ status = [c \in Campaigns |-> "PENDING"]
    /\ price \in [Campaigns -> 1..MaxPrice]
    /\ balance \in {b \in [Users -> 0..MaxBalance] : b["own"] = 0}
    /\ balance0 = balance
    /\ ledger = EmptyBag
    /\ assignments = <<>>
    /\ channel = [ch \in Channels |-> [is_verified |-> TRUE, bot_admin_status |-> TRUE]]
    /\ jobs = {}
    /\ due = [c \in Campaigns |-> FALSE]
    /\ expired = [c \in Campaigns |-> FALSE]
    /\ tasks = [t \in TaskIds |-> IdleTask]
    /\ fired = [c \in Campaigns |-> NoFire]

\* accept_campaign calls by the channels, interleaving at their awaits
NextAcceptConc ==
    \/ \E t \in TaskIds : \E c \in Campaigns, ch \in Channels :
            accept_campaign(t, c, ch, Cardinality(TaskIds))
    \/ \E t \in TaskIds : accept_hold_load(t)
    \/ \E t \in TaskIds : accept_hold_check(t)
    \/ \E t \in TaskIds : accept_hold_commit(t)
    \/ \E t \in TaskIds : assign_commit(t)
    \/ \E t \in TaskIds : assign_fails(t)
    \/ Collect
SpecAcceptConc == InitAcceptConc /\ [][NextAcceptConc]_vars

\* C20: however the accepts of two channels interleave, a campaign has at
\* most one assignment and at most one COMPLETED HOLD, and the advertiser
\* is debited at most once.
C20_OneAssignment ==
    \A c \in Campaigns :
        /\ Cardinality(AssignmentIds(c)) <= 1
        /\ Holds(c) <= 1
        /\ balance[advertiser_id(c)] >= balance0[advertiser_id(c)] - price[c]

\* ---------------------------------------------------------------------
\* C21: a call of accept_campaign on a campaign that is not PENDING, or with
\* a channel that is not (verified and bot admin), or on a campaign that
\* already has an assignment row, ends at once with an error, and the
\* campaign status, the assignments, the balances and the ledger are
\* what they were.
C21_AcceptRejected ==
    [][\A t \in TaskIds :
          (/\ tasks[t].op = "idle"
           /\ tasks'[t].op = "accept"
           /\ \/ status[tasks'[t].c] # "PENDING"
              \/ ~channel[tasks'[t].ch].is_verified
              \/ ~channel[tasks'[t].ch].bot_admin_status
              \/ AssignmentIds(tasks'[t].c) # {})
          => /\ tasks'[t].pc = "done"
             /\ tasks'[t].out \in {"CampaignValidationError",
                                   "CampaignAlreadyAssigned", "DatabaseError"}
             /\ status[tasks'[t].c] # "PENDING"
                    => tasks'[t].out = "CampaignValidationError"
             /\ UNCHANGED <<status, assignments, balance, ledger, jobs>>]_vars

\* accept_campaign was refused on a PENDING, unassigned campaign because the
\* channel's bot is not an administrator
C21_Witness ==
    \E t \in TaskIds :
        /\ Done(t, "accept", "CampaignValidationError")
        /\ status[tasks[t].c] = "PENDING"
        /\ AssignmentIds(tasks[t].c) = {}
        /\ channel[tasks[t].ch].is_verified
        /\ ~channel[tasks[t].ch].bot_admin_status
        /\ Holds(tasks[t].c) = 0

\* ---------------------------------------------------------------------
\* C22: every step of a scheduled verification run (the one-shot job or one
\* of its retries) on a campaign that is CANCELLED leaves the campaign
\* CANCELLED, with no COMPLETED RELEASE and at most one COMPLETED REFUND.
C22_JobOnCancelledCampaign ==
    [][\A t \in TaskIds :
          (/\ tasks[t].op \in {"job", "retry"}
           /\ tasks[t].sched
           /\ tasks'[t] # tasks[t]
           /\ status[tasks[t].c] = "CANCELLED"
           /\ Holds(tasks[t].c) = 1)
          => /\ status'[tasks[t].c] = "CANCELLED"
             /\ CompletedOf(ledger', "RELEASE", tasks[t].c) = 0
             /\ CompletedOf(ledger', "REFUND", tasks[t].c) <= 1]_vars

\* ---------------------------------------------------------------------
\* the sweep's own scenario: the campaign is accepted and its ad posted,
\* but the one-shot job verify_campaign_{c} is not in the (in-memory) job
\* store, as after post_campaign_ad without a verification_service
InitSweep ==
    /\ status = [c \in Campaigns |-> "ACTIVE"]
    /\ price \in [Campaigns -> 1..MaxPrice]
    /\ balance0 \in {b \in [Users -> 0..MaxBalance] :
                       b["own"] = 0 /\ \A c \in Campaigns : b["adv"] = price[c]}
    /\ balance = [balance0 EXCEPT !["adv"] = @ - price[1]]
    /\ ledger = SetToBag({Transaction("HOLD", "adv", 1, -price[1])})
    /\ assignments = <<[CampaignAssignment(1, 1) EXCEPT
                           !.message_id = "msg", !.posted_at = "set",
                           !.verification_scheduled_at = "set"]>>
    /\ channel = ChannelConfig
    /\ jobs = {}
    /\ due = [c \in Campaigns |-> FALSE]
    /\ expired = [c \in Campaigns |-> FALSE]
    /\ tasks = [t \in TaskIds |-> IdleTask]
    /\ fired = [c \in Campaigns |-> NoFire]

\* Spec reaches the states SpecSweep starts from
PostedWithoutJob ==
    /\ status = [c \in Campaigns |-> "ACTIVE"]
    /\ balance = [balance0 EXCEPT !["adv"] = @ - price[1]]
    /\ ledger = SetToBag({Transaction("HOLD", "adv", 1, -price[1])})
    /\ assignments = <<[CampaignAssignment(1, 1) EXCEPT
                           !.message_id = "msg", !.posted_at = "set",
                           !.verification_scheduled_at = "set"]>>
    /\ jobs = {}
    /\ due = [c \in Campaigns |-> FALSE]
    /\ expired = [c \in Campaigns |-> FALSE]
    /\ tasks = [t \in TaskIds |-> IdleTask]
    /\ fired = [c \in Campaigns |-> NoFire]

\* the interval job _periodic_verification_check
SweepRun == \E t \in TaskIds, aid \in DOMAIN assignments : periodic_verification_check(t, aid, 1)
\* the date-triggered retry jobs the sweep's verification may add
SweepJobRun == \E t \in TaskIds : \E j \in jobs : fire_job(t, j, 1)
SweepClock == \E c \in Campaigns : pass_verification_time(c)
\* _verify_single_campaign reads the campaign and its posted, unverified
\* assignment without a persistence error
VerifyReadSucceeds == \E t \in TaskIds : verify_read(t) /\ tasks'[t].pc = "gateway"

NextSweep ==
    \/ SweepRun
    \/ SweepJobRun
    \/ VerifyStep
    \/ SweepClock
    \/ Collect

\* the scheduler starts the interval job again and again (IntervalTrigger,
\* 5 minutes) and every due date job; the event loop runs each coroutine
\* on to its end; persistence does not fail for ever
SweepFairness ==
    /\ SF_vars(SweepRun)
    /\ WF_vars(SweepJobRun)
    /\ WF_vars(VerifyStep)
    /\ WF_vars(SweepClock)
    /\ WF_vars(Collect)
    /\ SF_vars(VerifyReadSucceeds)

SpecSweep == InitSweep /\ [][NextSweep]_vars /\ SweepFairness

\* C23: a posted assignment whose verification time has passed, whose
\* compliance is unknown and whose campaign has no job verify_campaign_{c}
\* in the store eventually has its compliance recorded.
C23_SweepVerifies ==
    \A c \in Campaigns :
        (/\ due[c]
         /\ Job(c, 0) \notin jobs
         /\ \E i \in AssignmentIds(c) :
               /\ is_posted(assignments[i])
               /\ assignments[i].verification_scheduled_at # "None"
               /\ assignments[i].is_compliant = "None")
        ~> (\A i \in AssignmentIds(c) : assignments[i].is_compliant # "None")

\* ---------------------------------------------------------------------
\* C24: when the gateway fails to post in post_campaign_ad, the call ends
\* with an error and the campaign FAILED, and it makes no escrow write:
\* the balances, the ledger, the assignment (still unposted) and the job
\* store are what they were.
C24_PostingFailureFrame ==
    [][\A t \in TaskIds :
          (/\ tasks[t].op = "post" /\ tasks[t].pc = "post"
           /\ tasks'[t].pc = "done"
           /\ tasks'[t].gw = "post_failed")
          => /\ status'[tasks[t].c] = "FAILED"
             /\ tasks'[t].out = "PostingServiceError"
             /\ UNCHANGED <<balance, ledger, assignments, jobs>>
             /\ status[tasks[t].c] = "ACTIVE" /\ Job(tasks[t].c, 0) \notin jobs
                    => /\ ~is_posted(assignments'[tasks[t].aid])
                       /\ assignments'[tasks[t].aid].verification_scheduled_at = "None"
                       /\ Job(tasks[t].c, 0) \notin jobs']_vars

\* a publish of a held, ACTIVE campaign's assignment has failed at the
\* gateway
C24_Witness ==
    \E t \in TaskIds :
        /\ Done(t, "post", "PostingServiceError")
        /\ tasks[t].gw = "post_failed"
        /\ status[tasks[t].c] = "FAILED"
        /\ Holds(tasks[t].c) = 1
        /\ Refunds(tasks[t].c) = 0
        /\ ~is_posted(assignments[tasks[t].aid])

\* ---------------------------------------------------------------------
\* C25: once a COMPLETED RELEASE or REFUND exists for a campaign that has
\* an assignment, and no call is running or waiting to be collected, the
\* assignment's settlement_processed is true and is_settlement_ready false.
C25_SettlementProcessed ==
    \A c \in Campaigns :
        (/\ Releases(c) + Refunds(c) >= 1
         /\ Holds(c) = 1
         /\ \A t \in TaskIds : tasks[t].op = "idle")
        => \A i \in AssignmentIds(c) :
               /\ assignments[i].settlement_processed
               /\ ~is_settlement_ready(assignments[i])

\* ---------------------------------------------------------------------
\* C26: a call of post_campaign_ad on an assignment that already has
\* message_id and posted_at ends at once with an error, without reaching
\* the gateway and with the assignments and the job store unchanged; and
\* a call that does come back from the gateway with a posted message
\* started from an unposted assignment.
C26_PublishGuard ==
    [][\A t \in TaskIds :
          /\ (/\ tasks[t].op = "idle"
              /\ tasks'[t].op = "post"
              /\ assignments[tasks'[t].aid].message_id # "None"
              /\ assignments[tasks'[t].aid].posted_at # "None")
             => /\ tasks'[t].pc = "done"
                /\ tasks'[t].out = "PostingServiceError"
                /\ UNCHANGED <<assignments, jobs, status>>
          /\ (/\ tasks[t].op = "post" /\ tasks[t].pc = "post"
              /\ tasks'[t].pc = "done"
              /\ tasks'[t].gw \in {"pinned", "pin_error"})
             => assignments[tasks[t].aid].message_id = "None"]_vars

\* a second publish of a posted assignment has been refused
C26_Witness ==
    \E t \in TaskIds :
        /\ Done(t, "post", "PostingServiceError")
        /\ tasks[t].gw = "none"
        /\ assignments[tasks[t].aid].message_id # "None"
        /\ assignments[tasks[t].aid].posted_at # "None"

\* ---------------------------------------------------------------------
\* C27: when the gateway posts the message and fails to pin it,
\* post_campaign_ad still writes message_id, posted_at and
\* verification_scheduled_at, adds the job verify_campaign_{c} when it was
\* given a verification service, returns a result that carries the pin
\* error, and leaves the campaign's status as it was.
C27_PinFailureNonFatal ==
    [][\A t \in TaskIds :
          (/\ tasks[t].op = "post" /\ tasks[t].pc = "post"
           /\ tasks'[t].pc = "done"
           /\ tasks'[t].gw = "pin_error")
          => /\ assignments'[tasks[t].aid].message_id # "None"
             /\ assignments'[tasks[t].aid].posted_at # "None"
             /\ assignments'[tasks[t].aid].verification_scheduled_at # "None"
             /\ tasks[t].sched => Job(tasks[t].c, 0) \in jobs'
             /\ tasks'[t].out = "pin_error"
             /\ status' = status]_vars

\* a publish of an ACTIVE campaign's assignment came back posted but not
\* pinned, with its verification scheduled
C27_Witness ==
    \E t \in TaskIds :
        /\ Done(t, "post", "pin_error")
        /\ tasks[t].gw = "pin_error"
        /\ status[tasks[t].c] = "ACTIVE"
        /\ is_posted(assignments[tasks[t].aid])
        /\ Job(tasks[t].c, 0) \in jobs

\* ---------------------------------------------------------------------
\* C28: no step of deposit, hold, release, refund, accept, cancel,
\* verification or cleanup removes or changes a COMPLETED ledger entry:
\* every entry (type, user, campaign, amount) is in the ledger after the
\* step at least as often as before it.
C28_LedgerAppendOnly ==
    [][\A r \in BagToSet(ledger) : CopiesIn(r, ledger') >= CopiesIn(r, ledger)]_vars

\* a refund has just been written and the ledger holds the campaign's HOLD
\* next to it
C28_Witness ==
    \E t \in TaskIds, c \in Campaigns :
        /\ tasks[t].pc = "done" /\ tasks[t].c = c /\ tasks[t].out = "ok"
        /\ tasks[t].op \in SettleOps
        /\ Holds(c) = 1
        /\ Refunds(c) = 1

\* ---------------------------------------------------------------------
\* the publish calls of one accepted campaign's assignment, interleaving at
\* their awaits (the guard is read before the gateway is called)
InitPostConc ==
    /\ status = [c \in Campaigns |-> "ACTIVE"]
    /\ price \in [Campaigns -> 1..MaxPrice]
    /\ balance0 \in {b \in [Users -> 0..MaxBalance] :
                       b["own"] = 0 /\ \A c \in Campaigns : b["adv"] = price[c]}
    /\ balance = [balance0 EXCEPT !["adv"] = @ - price[1]]
    /\ ledger = SetToBag({Transaction("HOLD", "adv", 1, -price[1])})
    /\ assignments = <<CampaignAssignment(1, 1)>>
    /\ channel = ChannelConfig
    /\ jobs = {}
    /\ due = [c \in Campaigns |-> FALSE]
    /\ expired = [c \in Campaigns |-> FALSE]
    /\ tasks = [t \in TaskIds |-> IdleTask]
    /\ fired = [c \in Campaigns |-> NoFire]

\* Spec reaches the states SpecPostConc starts from
AcceptedUnposted ==
    /\ status = [c \in Campaigns |-> "ACTIVE"]
    /\ balance = [balance0 EXCEPT !["adv"] = @ - price[1]]
    /\ ledger = SetToBag({Transaction("HOLD", "adv", 1, -price[1])})
    /\ assignments = <<CampaignAssignment(1, 1)>>
    /\ jobs = {}
    /\ tasks = [t \in TaskIds |-> IdleTask]

NextPostConc ==
    \/ \E t \in TaskIds, aid \in DOMAIN assignments, sched \in BOOLEAN :
          post_campaign_ad(t, aid, sched, Cardinality(TaskIds))
    \/ \E t \in TaskIds, r \in GatewayPostResults : post_result(t, r)
    \/ \E c \in Campaigns : pass_verification_time(c)
    \/ \E c \in Campaigns : cancel_verification(c)
    \/ Collect
SpecPostConc == InitPostConc /\ [][NextPostConc]_vars

\* C29: the job store never holds more than one job verify_campaign_{c}
\* for a campaign: scheduling the verification of a campaign whose job is
\* still in the store replaces that job.
C29_OneJobPerCampaign ==
    \A c \in Campaigns : Cardinality({j \in jobs : j.c = c /\ j.n = 0}) <= 1

\* post_campaign_ad has scheduled the verification of a campaign whose job
\* verify_campaign_{c} was still in the store
C29_Witness ==
    \E t \in TaskIds :
        /\ tasks[t].op = "post" /\ tasks[t].pc = "done"
        /\ tasks[t].out \in {"pinned", "pin_error"}
        /\ tasks[t].sched
        /\ tasks[t].rc = 1
        /\ Job(tasks[t].c, 0) \in jobs

\* ---------------------------------------------------------------------
\* two campaigns of the one advertiser, accepted by channels while
\* refunds are called, all interleaving at their awaits
TwoCampaigns == {1, 2}

InitBalanceConc ==
    /\ status = [c \in TwoCampaigns |-> "PENDING"]
    /\ price \in [TwoCampaigns -> 1..MaxPrice]
    /\ balance \in {b \in [Users -> 0..MaxBalance] : b["own"] = 0}
    /\ balance0 = balance
    /\ ledger = EmptyBag
    /\ assignments = <<>>
    /\ channel = ChannelConfig
    /\ jobs = {}
    /\ due = [c \in TwoCampaigns |-> FALSE]
    /\ expired = [c \in TwoCampaigns |-> FALSE]
    /\ tasks = [t \in TaskIds |-> IdleTask]
    /\ fired = [c \in TwoCampaigns |-> NoFire]

BalanceCall ==
    \E t \in TaskIds :
        \/ \E c \in TwoCampaigns, ch \in Channels :
              accept_campaign(t, c, ch, Cardinality(TaskIds))
        \/ \E c \in TwoCampaigns : refund_funds(t, c, Cardinality(TaskIds))

BalanceStep ==
    \E t \in TaskIds :
        \/ accept_hold_load(t)
        \/ accept_hold_check(t)
        \/ accept_hold_commit(t)
        \/ assign_commit(t)
        \/ assign_fails(t)
        \/ escrow_check(t)
        \/ escrow_commit(t)

NextBalanceConc == BalanceCall \/ BalanceStep \/ Collect
SpecBalanceConc == InitBalanceConc /\ [][NextBalanceConc]_vars

\* C30: no user's balance is ever negative, however deposits, accepts
\* (holds), releases and refunds interleave, two accepts of different
\* campaigns of one advertiser with prices that together exceed the
\* balance included.
C30_BalanceNonNegative ==
    \A u \in Users : balance[u] >= 0

\* both campaigns of the advertiser are held although their prices
\* together exceed everything the advertiser ever had
C30_Witness ==
    /\ CompletedOf(ledger, "HOLD", 1) = 1
    /\ CompletedOf(ledger, "HOLD", 2) = 1
    /\ CompletedOf(ledger, "DEPOSIT", NoCampaign) = 0
    /\ CompletedOf(ledger, "REFUND", 1) + CompletedOf(ledger, "REFUND", 2) = 0
    /\ price[1] + price[2] > balance0["adv"]
    /\ balance["adv"] >= 0

\* ---------------------------------------------------------------------
\* C31: cancel_campaign called by someone who is not the campaign's
\* advertiser, or on a campaign that is COMPLETED, FAILED or CANCELLED,
\* ends at once with an error and the status unchanged; a cancel that
\* commits was called by the advertiser on a PENDING or ACTIVE campaign
\* and sets CANCELLED.
C31_CancelContract ==
    [][\A t \in TaskIds :
          /\ (/\ tasks[t].op = "idle"
              /\ tasks'[t].op = "cancel"
              /\ \/ tasks'[t].u # advertiser_id(tasks'[t].c)
                 \/ status[tasks'[t].c] \in {"COMPLETED", "FAILED", "CANCELLED"})
             => /\ tasks'[t].pc = "done"
                /\ tasks'[t].out = "CampaignValidationError"
                /\ UNCHANGED <<status, assignments, balance, ledger, jobs>>
          /\ (/\ tasks[t].op = "cancel"
              /\ tasks'[t].op = "cancel" /\ tasks'[t].pc = "done"
              /\ tasks'[t].out = "ok")
             => /\ tasks[t].u = advertiser_id(tasks[t].c)
                /\ status[tasks[t].c] \in {"PENDING", "ACTIVE"}
                /\ status'[tasks[t].c] = "CANCELLED"]_vars

\* the advertiser's cancel of a campaign that had ended was refused
C31_Witness ==
    \E t \in TaskIds :
        /\ Done(t, "cancel", "CampaignValidationError")
        /\ tasks[t].u = advertiser_id(tasks[t].c)
        /\ status[tasks[t].c] \in {"COMPLETED", "FAILED"}

\* ---------------------------------------------------------------------
\* C32: when a verification run moves a held, unsettled campaign into
\* FAILED, the status change stays and the run goes on to refund_funds,
\* whatever happens to the notification of the change.
C32_NotificationFailureSwallowed ==
    [][\A t \in TaskIds :
          (/\ tasks[t].op \in VerifyOps
           /\ tasks[t].pc = "status"
           /\ tasks[t].target = "FAILED"
           /\ tasks'[t] # tasks[t]
           /\ status[tasks[t].c] \notin {"FAILED", "CANCELLED"}
           /\ Holds(tasks[t].c) = 1
           /\ Refunds(tasks[t].c) = 0)
          => /\ status'[tasks[t].c] = "FAILED"
             /\ tasks'[t].pc = "refund_load"]_vars

\* ---------------------------------------------------------------------
\* C33: deposit_funds with an amount that is not positive ends at once
\* with a validation error and neither balance nor ledger changes; with a
\* positive amount its commit raises the user's balance by exactly the
\* amount, leaves the other balances alone and adds exactly one COMPLETED
\* DEPOSIT entry of that amount for the user.
C33_DepositContract ==
    [][\A t \in TaskIds :
          /\ (/\ tasks[t].op = "idle"
              /\ tasks'[t].op = "deposit"
              /\ tasks'[t].amt <= 0)
             => /\ tasks'[t].pc = "done"
                /\ tasks'[t].out = "InvalidTransaction"
                /\ UNCHANGED <<balance, ledger>>
          /\ (/\ tasks[t].op = "deposit" /\ tasks[t].pc = "commit"
              /\ tasks'[t].pc = "done")
             => LET u == tasks[t].u
                    row == Transaction("DEPOSIT", u, NoCampaign, tasks[t].amt)
                IN  /\ tasks[t].amt > 0
                    /\ balance' = [balance EXCEPT ![u] = @ + tasks[t].amt]
                    /\ ledger' = ledger (+) SetToBag({row})
                    /\ tasks'[t].out = "ok"]_vars

\* a deposit has been committed and the ledger shows it
C33_Witness ==
    \E t \in TaskIds :
        /\ Done(t, "deposit", "ok")
        /\ CompletedOf(ledger, "DEPOSIT", NoCampaign) = 1
        /\ balance[tasks[t].u] > balance0[tasks[t].u]

\* ---------------------------------------------------------------------
\* the system with its scheduler kept running: the date-triggered jobs,
\* the 5-minute sweep and the hourly cleanup are started again and again,
\* time passes, and the event loop runs every started call to its end.
\* What users call, and when, is left open.
SchedulerJobs ==
    \E t \in TaskIds :
        \/ \E j \in jobs : fire_job(t, j, 1)
        \/ \E aid \in DOMAIN assignments : periodic_verification_check(t, aid, 1)
        \/ \E c \in Campaigns : cleanup_expired_campaigns(t, c, 1)
TimePasses == \E c \in Campaigns : pass_verification_time(c) \/ pass_expiry(c)

SchedulerFairness ==
    /\ SF_vars(SchedulerJobs)
    /\ WF_vars(TimePasses)
    /\ WF_vars(Step)
    /\ WF_vars(Collect)

SpecScheduler == Init /\ [][Next]_vars /\ SchedulerFairness

\* C34: every campaign that has a COMPLETED HOLD eventually has a
\* COMPLETED RELEASE or REFUND.
C34_NoStrandedEscrow ==
    \A c \in Campaigns :
        (Holds(c) >= 1) ~> (Releases(c) + Refunds(c) >= 1)

\* ------------------------------------------------- conservation of money
RECURSIVE AmountOf(_, _)
\* sum of the amounts of the rows of l, each counted with its copies
AmountOf(l, rows) ==
    IF rows = {} THEN 0
    ELSE LET r == CHOOSE x \in rows : TRUE
         IN  r.amount * CopiesIn(r, l) + AmountOf(l, rows \ {r})

\* sum of all COMPLETED DEPOSIT amounts
Deposited == AmountOf(ledger, Matching(ledger, "DEPOSIT", NoCampaign))

RECURSIVE HeldPrices(_)
\* sum of the prices of the campaigns of cs whose hold is not settled: a
\* COMPLETED HOLD and neither a COMPLETED RELEASE nor a COMPLETED REFUND
HeldPrices(cs) ==
    IF cs = {} THEN 0
    ELSE LET c == CHOOSE x \in cs : TRUE
         IN  (IF Holds(c) >= 1 /\ Releases(c) + Refunds(c) = 0
              THEN price[c] ELSE 0) + HeldPrices(cs \ {c})

\* C35: in every reachable state the sum of all balances plus the prices
\* of the campaigns whose hold is not settled equals the initial balances
\* plus the sum of all COMPLETED DEPOSIT amounts.
C35_MoneyConserved ==
    Total(balance) + HeldPrices(Campaigns) = Total(balance0) + Deposited

C37_StatusAgreesWithLedger ==
    \A c \in Campaigns :
        /\ status[c] = "COMPLETED" => (Releases(c) >= 1 /\ Refunds(c) = 0)
        /\ Refunds(c) >= 1 => status[c] \in {"FAILED", "CANCELLED"}

C39_PublishOnlyWhenActive ==
    [][\A t \in TaskIds :
          (/\ tasks[t].op = "post" /\ tasks[t].pc = "post"
           /\ tasks'[t] # tasks[t]
           /\ status[tasks[t].c] # "ACTIVE")
          => /\ tasks'[t].gw = "none"
             /\ assignments' = assignments
             /\ jobs' = jobs]_vars

============================================================================
